---- MODULE Spec2Model ----
(***************************************************************************)
(* A model of app.py: decode_viewstate (regex capture of the __VIEWSTATE   *)
(* value, base64 decoding, best-effort zlib decompression, UTF-8/Latin-1   *)
(* text decoding), extract_pin_value (regex search for a labelled 6-digit  *)
(* run) and the branch of the Streamlit shell that chains the two.         *)
(*                                                                         *)
(* Text is a sequence of Unicode code points, bytes are a sequence of      *)
(* 0..255.  The library calls (re.search, base64.b64decode,                *)
(* zlib.decompress, bytes.decode) are modelled by what CPython 3.11 with   *)
(* zlib 1.2.13 does on these sequences.                                    *)
(***************************************************************************)
EXTENDS Integers, Sequences, FiniteSets, TLC

VARIABLES source_content, pc, encoded_string, decoded_bytes,
          decompressed_bytes, decoded_content, pin_value, log, ui, origin

vars == <<source_content, pc, encoded_string, decoded_bytes,
          decompressed_bytes, decoded_content, pin_value, log, ui, origin>>

(***************************************************************************)
(* Python values: None, a str, a bytes object.                             *)
(***************************************************************************)
None == [tag |-> "None", val |-> <<>>]
Str(s) == [tag |-> "str", val |-> s]
Bytes(b) == [tag |-> "bytes", val |-> b]
\* variant of Truthy: the test `x is not None`
TruthyNotNone(x) == x.tag # "None"
\* Python truthiness of None / str: `if x:`
Truthy(x) == x.tag # "None" /\ Len(x.val) > 0

(***************************************************************************)
(* Generic sequence helpers.                                               *)
(***************************************************************************)
Min(S) == CHOOSE x \in S : \A y \in S : x <= y
Max(S) == CHOOSE x \in S : \A y \in S : x >= y
Slice(s, a, b) == [k \in 1..(b - a + 1) |-> s[a + k - 1]]
RECURSIVE Flatten(_)
Flatten(ss) == IF ss = <<>> THEN <<>> ELSE Head(ss) \o Flatten(Tail(ss))
RECURSIVE Pow2(_)
Pow2(n) == IF n = 0 THEN 1 ELSE 2 * Pow2(n - 1)

(***************************************************************************)
(* Characters of the two patterns (app.py:16 and app.py:80).               *)
(***************************************************************************)
LF == 10
QUOTE == 34
GT == 62
EQUALS == 61
\* name=q__VIEWSTATEq, q the double quote
NAME_LITERAL == <<110, 97, 109, 101, 61, 34, 95, 95, 86, 73, 69, 87, 83, 84,
                  65, 84, 69, 34>>
\* value=q
VALUE_LITERAL == <<118, 97, 108, 117, 101, 61, 34>>
\* PIN
PIN_LITERAL == <<80, 73, 78>>

(***************************************************************************)
(* re.IGNORECASE on a str pattern: a pattern letter matches a character    *)
(* with the same simple lower-case mapping; U+0130 and U+0131 also match   *)
(* i and U+017F matches s (no other character matches a letter of the two  *)
(* patterns).                                                              *)
(***************************************************************************)
CaseFold(c) ==
    IF c >= 65 /\ c <= 90 THEN c + 32
    ELSE IF c = 304 \/ c = 305 THEN 105
    ELSE IF c = 383 THEN 115
    ELSE c

\* a literal of the pattern matches text t at position i, re.IGNORECASE
LiteralAt(lit, t, i) ==
    /\ i >= 1
    /\ i + Len(lit) - 1 <= Len(t)
    /\ \A k \in 1..Len(lit) : CaseFold(t[i + k - 1]) = CaseFold(lit[k])

(***************************************************************************)
(* \d on a str pattern is Unicode-aware: every character of category Nd.   *)
(* The ranges listed are ASCII, Arabic-Indic, Extended Arabic-Indic,       *)
(* Devanagari and Fullwidth digits.                                        *)
(***************************************************************************)
IsDigit(c) ==
    \/ c >= 48 /\ c <= 57
    \/ c >= 1632 /\ c <= 1641
    \/ c >= 1776 /\ c <= 1785
    \/ c >= 2406 /\ c <= 2415
    \/ c >= 65296 /\ c <= 65305

\* `.` without re.DOTALL: any character except a line feed
Dot(c) == c # LF

(***************************************************************************)
(* app.py:16  re.search of NAME_LITERAL [^>]* VALUE_LITERAL ( [^q]* ) q    *)
(* in html_content under re.IGNORECASE, q the double quote.                *)
(* The search takes the leftmost start i at which the whole pattern can    *)
(* match.  [^>]* is greedy: it first runs to the next > (or the end) and   *)
(* backtracks, so VALUE_LITERAL is taken at the LAST position j where it   *)
(* can be taken.  The group then captures up to the first double quote    *)
(* after j, which must exist.                                              *)
(***************************************************************************)
\* positions j at which VALUE_LITERAL can follow NAME_LITERAL matched at i
ValueStarts(t, i) ==
    LET e == i + Len(NAME_LITERAL)
    IN {j \in e..Len(t) :
          /\ \A k \in e..(j - 1) : t[k] # GT
          /\ LiteralAt(VALUE_LITERAL, t, j)
          /\ \E q \in (j + Len(VALUE_LITERAL))..Len(t) : t[q] = QUOTE}

ViewstateStarts(t) ==
    {i \in 1..Len(t) : LiteralAt(NAME_LITERAL, t, i) /\ ValueStarts(t, i) # {}}

\* match.group(1), or None when re.search returns no match
ViewstateSearch(t) ==
    IF ViewstateStarts(t) = {} THEN None
    ELSE LET i == Min(ViewstateStarts(t))
             j == Max(ValueStarts(t, i))
             a == j + Len(VALUE_LITERAL)
             q == Min({k \in a..Len(t) : t[k] = QUOTE})
         IN Str(Slice(t, a, q - 1))

(***************************************************************************)
(* app.py:80-82  re.search(r'PIN(.*?)(?<!\d)(\d{6})', text, re.IGNORECASE) *)
(* For a label matched at i the lazy gap takes the FIRST s >= i + 3 such   *)
(* that the gap holds no line feed, the character before s is no digit and *)
(* six digits start at s.  Nothing is required of the character after the  *)
(* six digits.                                                             *)
(***************************************************************************)
PIN_DIGITS == 6

DigitsAt(t, s) ==
    /\ s + PIN_DIGITS - 1 <= Len(t)
    /\ \A k \in s..(s + PIN_DIGITS - 1) : IsDigit(t[k])

\* (?<!\d) at position s
NotAfterDigit(t, s) == s = 1 \/ ~IsDigit(t[s - 1])

PinRuns(t, i) ==
    LET e == i + Len(PIN_LITERAL)
    IN {s \in e..Len(t) :
          /\ \A k \in e..(s - 1) : Dot(t[k])
          /\ NotAfterDigit(t, s)
          /\ DigitsAt(t, s)}

PinStarts(t) ==
    {i \in 1..Len(t) : LiteralAt(PIN_LITERAL, t, i) /\ PinRuns(t, i) # {}}

\* match.group(2), or None
PinSearch(t) ==
    IF PinStarts(t) = {} THEN None
    ELSE LET i == Min(PinStarts(t))
             s == Min(PinRuns(t, i))
         IN Str(Slice(t, s, s + PIN_DIGITS - 1))

\* app.py:64-87
extract_pin_value(decoded_string) ==
    IF ~Truthy(decoded_string) THEN None
    ELSE PinSearch(decoded_string.val)

(***************************************************************************)
(* app.py:28  base64.b64decode(encoded_string), validate=False.            *)
(* A str argument is first encoded as ASCII (ValueError on a character     *)
(* above 127).  binascii.a2b_base64 then runs in non-strict mode: a        *)
(* character outside the alphabet is skipped; = is skipped unless it       *)
(* completes the padding of the current quad, and then decoding stops and  *)
(* the rest is not read; at the end of the input a quad left open is a     *)
(* binascii.Error.                                                         *)
(***************************************************************************)
B64_INVALID == 64

B64Value(c) ==
    IF c >= 65 /\ c <= 90 THEN c - 65
    ELSE IF c >= 97 /\ c <= 122 THEN c - 97 + 26
    ELSE IF c >= 48 /\ c <= 57 THEN c - 48 + 52
    ELSE IF c = 43 THEN 62
    ELSE IF c = 47 THEN 63
    ELSE B64_INVALID

Ok(v) == [st |-> "ok", val |-> v]
Raise(e) == [st |-> e, val |-> <<>>]

RECURSIVE a2b_base64(_, _, _, _, _, _)
a2b_base64(s, i, quad_pos, leftchar, pads, out) ==
    IF i > Len(s)
    THEN IF quad_pos # 0 THEN Raise("binascii.Error") ELSE Ok(out)
    ELSE IF s[i] = EQUALS
    THEN IF quad_pos >= 2 /\ quad_pos + pads + 1 >= 4
         THEN Ok(out)
         ELSE a2b_base64(s, i + 1, quad_pos, leftchar,
                         IF quad_pos >= 2 THEN pads + 1 ELSE pads, out)
    ELSE LET v == B64Value(s[i])
         IN IF v >= B64_INVALID
            THEN a2b_base64(s, i + 1, quad_pos, leftchar, pads, out)
            ELSE IF quad_pos = 0
            THEN a2b_base64(s, i + 1, 1, v, 0, out)
            ELSE IF quad_pos = 1
            THEN a2b_base64(s, i + 1, 2, v % 16, 0,
                            Append(out, leftchar * 4 + v \div 16))
            ELSE IF quad_pos = 2
            THEN a2b_base64(s, i + 1, 3, v % 4, 0,
                            Append(out, leftchar * 16 + v \div 4))
            ELSE a2b_base64(s, i + 1, 0, 0, 0,
                            Append(out, leftchar * 64 + v))

\* variant of b64decode: validate=True, a character outside the alphabet is
\* an error
b64decode_strict(s) ==
    IF \E k \in 1..Len(s) : s[k] > 127
    THEN Raise("ValueError")
    ELSE IF \E k \in 1..Len(s) : B64Value(s[k]) >= B64_INVALID /\ s[k] # EQUALS
    THEN Raise("binascii.Error")
    ELSE a2b_base64(s, 1, 0, 0, 0, <<>>)

b64decode(s) ==
    IF \E k \in 1..Len(s) : s[k] > 127
    THEN Raise("ValueError")
    ELSE a2b_base64(s, 1, 0, 0, 0, <<>>)

(***************************************************************************)
(* app.py:33  zlib.decompress(decoded_bytes): a zlib stream (RFC 1950)     *)
(* around deflate blocks (RFC 1951).  Every failure is a zlib.error.       *)
(***************************************************************************)
\* bit n (from 0) of the byte string, least significant bit of a byte first
Bit(b, n) == (b[n \div 8 + 1] \div Pow2(n % 8)) % 2
HasBits(b, n, k) == n + k <= 8 * Len(b)
\* k bits read as an integer, first bit least significant (extra bits, headers)
RECURSIVE BitsLSB(_, _, _)
BitsLSB(b, n, k) ==
    IF k = 0 THEN 0 ELSE Bit(b, n) + 2 * BitsLSB(b, n + 1, k - 1)
\* k bits read as a Huffman code, first bit most significant
RECURSIVE BitsMSB(_, _, _)
BitsMSB(b, n, k) ==
    IF k = 0 THEN 0
    ELSE Bit(b, n) * Pow2(k - 1) + BitsMSB(b, n + 1, k - 1)

\* the Adler-32 checksum as its four bytes, most significant first
ADLER_MOD == 65521
RECURSIVE AdlerAB(_, _, _, _)
AdlerAB(b, i, s1, s2) ==
    IF i > Len(b) THEN <<s2 \div 256, s2 % 256, s1 \div 256, s1 % 256>>
    ELSE LET a == (s1 + b[i]) % ADLER_MOD
         IN AdlerAB(b, i + 1, a, (s2 + a) % ADLER_MOD)
adler32(b) == AdlerAB(b, 1, 1, 0)

\* RFC 1951 3.2.5: length codes 257..285 and distance codes 0..29
LengthBase == <<3, 4, 5, 6, 7, 8, 9, 10, 11, 13, 15, 17, 19, 23, 27, 31, 35,
                43, 51, 59, 67, 83, 99, 115, 131, 163, 195, 227, 258>>
LengthExtra == <<0, 0, 0, 0, 0, 0, 0, 0, 1, 1, 1, 1, 2, 2, 2, 2, 3, 3, 3, 3,
                 4, 4, 4, 4, 5, 5, 5, 5, 0>>
DistBase == <<1, 2, 3, 4, 5, 7, 9, 13, 17, 25, 33, 49, 65, 97, 129, 193, 257,
              385, 513, 769, 1025, 1537, 2049, 3073, 4097, 6145, 8193, 12289,
              16385, 24577>>
DistExtra == <<0, 0, 0, 0, 1, 1, 2, 2, 3, 3, 4, 4, 5, 5, 6, 6, 7, 7, 8, 8, 9,
               9, 10, 10, 11, 11, 12, 12, 13, 13>>

\* k bits as a Huffman code, or -1 when the input ends before them
Peek(b, n, k) == IF HasBits(b, n, k) THEN BitsMSB(b, n, k) ELSE -1

\* RFC 1951 3.2.6: the symbol of the fixed Huffman code whose first 7, 8 and
\* 9 bits are v7, v8 and v9, as [sym, len]; sym = -1 when the input ends
\* inside the code
FixedCode(v7, v8, v9) ==
    IF v7 < 0 THEN [sym |-> -1, len |-> 0]
    ELSE IF v7 <= 23 THEN [sym |-> 256 + v7, len |-> 7]
    ELSE IF v8 < 0 THEN [sym |-> -1, len |-> 0]
    ELSE IF v8 >= 48 /\ v8 <= 191 THEN [sym |-> v8 - 48, len |-> 8]
    ELSE IF v8 >= 192 /\ v8 <= 199 THEN [sym |-> 280 + v8 - 192, len |-> 8]
    ELSE IF v9 < 0 THEN [sym |-> -1, len |-> 0]
    ELSE [sym |-> 144 + v9 - 400, len |-> 9]

FixedSymbol(b, n) == FixedCode(Peek(b, n, 7), Peek(b, n, 8), Peek(b, n, 9))

\* copy len bytes from dist back, byte by byte (the copy may overlap itself)
RECURSIVE CopyBack(_, _, _)
CopyBack(out, dist, len) ==
    IF len = 0 THEN out
    ELSE CopyBack(Append(out, out[Len(out) - dist + 1]), dist, len - 1)

InflateResult(st, out, n) == [st |-> st, val |-> out, pos |-> n]

RECURSIVE InflateFixed(_, _, _)

\* a match: after length symbol sym, at bit m, come lx extra bits of the
\* length, a 5-bit distance code and the extra bits of the distance
FixedDistance(b, m, out, len, dc) ==
    IF dc > 29 THEN InflateResult("zlib.error", out, m)
    ELSE IF ~HasBits(b, m, DistExtra[dc + 1])
    THEN InflateResult("zlib.error", out, m)
    ELSE IF DistBase[dc + 1] + BitsLSB(b, m, DistExtra[dc + 1]) > Len(out)
    THEN InflateResult("zlib.error", out, m)
    ELSE InflateFixed(b, m + DistExtra[dc + 1],
                      CopyBack(out, DistBase[dc + 1]
                                    + BitsLSB(b, m, DistExtra[dc + 1]), len))

FixedMatch(b, m, out, sym, lx) ==
    IF ~HasBits(b, m, lx + 5) THEN InflateResult("zlib.error", out, m)
    ELSE FixedDistance(b, m + lx + 5, out,
                       LengthBase[sym - 256] + BitsLSB(b, m, lx),
                       BitsMSB(b, m + lx, 5))

\* the symbol c read at bit n: a literal, the end of the block, or a length
FixedStep(b, n, out, c) ==
    IF c.sym < 0 THEN InflateResult("zlib.error", out, n)
    ELSE IF c.sym < 256 THEN InflateFixed(b, n + c.len, Append(out, c.sym))
    ELSE IF c.sym = 256 THEN InflateResult("ok", out, n + c.len)
    ELSE IF c.sym > 285 THEN InflateResult("zlib.error", out, n)
    ELSE FixedMatch(b, n + c.len, out, c.sym, LengthExtra[c.sym - 256])

\* the symbols of one fixed-Huffman block, from bit n
InflateFixed(b, n, out) == FixedStep(b, n, out, FixedSymbol(b, n))

\* one stored block: p bytes are consumed when its 3 header bits end; LEN,
\* its complement NLEN and LEN bytes follow
StoredBytes(b, p, out, len, nlen) ==
    IF len + nlen # 65535 THEN InflateResult("zlib.error", out, 8 * p)
    ELSE IF Len(b) < p + 4 + len THEN InflateResult("zlib.error", out, 8 * p)
    ELSE InflateResult("ok", out \o Slice(b, p + 5, p + 4 + len),
                       8 * (p + 4 + len))

InflateStoredAt(b, p, out) ==
    IF Len(b) < p + 4 THEN InflateResult("zlib.error", out, 8 * p)
    ELSE StoredBytes(b, p, out, b[p + 1] + 256 * b[p + 2],
                     b[p + 3] + 256 * b[p + 4])

InflateStored(b, n, out) == InflateStoredAt(b, (n + 7) \div 8, out)

\* the deflate blocks from bit n up to and including the final one.  A block
\* with dynamic Huffman codes (BTYPE = 2) is not decoded: the result
\* "dynamic" marks it, and DynamicFree states that no modelled payload has one.
RECURSIVE Inflate(_, _, _)

InflateBlock(b, n, out, btype) ==
    IF btype = 0 THEN InflateStored(b, n, out)
    ELSE IF btype = 1 THEN InflateFixed(b, n, out)
    ELSE IF btype = 2 THEN InflateResult("dynamic", out, n)
    ELSE InflateResult("zlib.error", out, n)

InflateNext(b, bfinal, r) ==
    IF r.st # "ok" \/ bfinal = 1 THEN r ELSE Inflate(b, r.pos, r.val)

Inflate(b, n, out) ==
    IF ~HasBits(b, n, 3) THEN InflateResult("zlib.error", out, n)
    ELSE InflateNext(b, Bit(b, n),
                     InflateBlock(b, n + 3, out, BitsLSB(b, n + 1, 2)))

\* RFC 1950: after the deflate data, at byte p, the Adler-32 of the output
\* (big endian); bytes after it are ignored by zlib.decompress
ZlibTrailer(b, r, p) ==
    IF r.st # "ok" THEN Raise(r.st)
    ELSE IF Len(b) < p + 4 THEN Raise("zlib.error")
    ELSE IF Slice(b, p + 1, p + 4) # adler32(r.val) THEN Raise("zlib.error")
    ELSE Ok(r.val)

ZlibBody(b, r) == ZlibTrailer(b, r, (r.pos + 7) \div 8)

\* RFC 1950: the CMF/FLG header: method 8, window at most 32K, check bits,
\* no preset dictionary
zlib_decompress(b) ==
    IF Len(b) < 2 THEN Raise("zlib.error")
    ELSE IF \/ b[1] % 16 # 8
            \/ b[1] \div 16 > 7
            \/ (b[1] * 256 + b[2]) % 31 # 0
            \/ (b[2] \div 32) % 2 = 1
    THEN Raise("zlib.error")
    ELSE ZlibBody(b, Inflate(b, 16, <<>>))

(***************************************************************************)
(* app.py:36/45  bytes.decode('utf-8'), errors='strict': well-formed UTF-8 *)
(* only (no overlong forms, no surrogates, nothing above U+10FFFF).        *)
(***************************************************************************)
IsCont(b, i) == i <= Len(b) /\ b[i] >= 128 /\ b[i] <= 191

\* variant of Utf8Char: a decoder of the Basic Multilingual Plane only, which
\* takes a 4-byte sequence for ill-formed
Utf8CharBmp(b, i) ==
    LET c == b[i]
    IN IF c <= 127 THEN [cp |-> c, len |-> 1]
       ELSE IF c >= 194 /\ c <= 223 /\ IsCont(b, i + 1)
       THEN [cp |-> (c - 192) * 64 + (b[i + 1] - 128), len |-> 2]
       ELSE IF /\ c >= 224 /\ c <= 239
               /\ IsCont(b, i + 1) /\ IsCont(b, i + 2)
               /\ (c = 224 => b[i + 1] >= 160)
               /\ (c = 237 => b[i + 1] <= 159)
       THEN [cp |-> ((c - 224) * 64 + (b[i + 1] - 128)) * 64
                    + (b[i + 2] - 128), len |-> 3]
       ELSE [cp |-> 0, len |-> 0]

\* the character starting at byte i as [cp, len]; len = 0 when ill-formed
Utf8Char(b, i) ==
    LET c == b[i]
    IN IF c <= 127 THEN [cp |-> c, len |-> 1]
       ELSE IF c >= 194 /\ c <= 223 /\ IsCont(b, i + 1)
       THEN [cp |-> (c - 192) * 64 + (b[i + 1] - 128), len |-> 2]
       ELSE IF /\ c >= 224 /\ c <= 239
               /\ IsCont(b, i + 1) /\ IsCont(b, i + 2)
               /\ (c = 224 => b[i + 1] >= 160)
               /\ (c = 237 => b[i + 1] <= 159)
       THEN [cp |-> ((c - 224) * 64 + (b[i + 1] - 128)) * 64
                    + (b[i + 2] - 128), len |-> 3]
       ELSE IF /\ c >= 240 /\ c <= 244
               /\ IsCont(b, i + 1) /\ IsCont(b, i + 2) /\ IsCont(b, i + 3)
               /\ (c = 240 => b[i + 1] >= 144)
               /\ (c = 244 => b[i + 1] <= 143)
       THEN [cp |-> (((c - 240) * 64 + (b[i + 1] - 128)) * 64
                     + (b[i + 2] - 128)) * 64 + (b[i + 3] - 128), len |-> 4]
       ELSE [cp |-> 0, len |-> 0]

RECURSIVE Utf8From(_, _, _)
Utf8From(b, i, out) ==
    IF i > Len(b) THEN Ok(out)
    ELSE LET ch == Utf8Char(b, i)
         IN IF ch.len = 0 THEN Raise("UnicodeDecodeError")
            ELSE Utf8From(b, i + ch.len, Append(out, ch.cp))

utf8_decode(b) == Utf8From(b, 1, <<>>)

\* variant of latin1_decode: the ASCII codec, which fails on a byte above 127
ascii_decode(b) ==
    IF \A k \in 1..Len(b) : b[k] >= 0 /\ b[k] <= 127
    THEN Ok(b)
    ELSE Raise("UnicodeDecodeError")

\* app.py:39/50  bytes.decode('latin-1'): byte k is the character U+00kk
latin1_decode(b) ==
    IF \A k \in 1..Len(b) : b[k] >= 0 /\ b[k] <= 255
    THEN Ok(b)
    ELSE Raise("UnicodeDecodeError")

\* app.py:54  the diagnostic string with decoded_bytes.hex()
HexDigit(n) == IF n < 10 THEN 48 + n ELSE 97 + n - 10
RECURSIVE hex(_)
hex(b) ==
    IF b = <<>> THEN <<>>
    ELSE <<HexDigit(Head(b) \div 16), HexDigit(Head(b) % 16)>> \o hex(Tail(b))
\* Could not decode as text. Raw Base64 decoded bytes (hex):
HEX_MESSAGE ==
    <<67, 111, 117, 108, 100, 32, 110, 111, 116, 32, 100, 101, 99, 111,
          100, 101, 32, 97, 115, 32, 116, 101, 120, 116, 46, 32, 82, 97,
          119, 32, 66, 97, 115, 101, 54, 52, 32, 100, 101, 99, 111, 100,
          101, 100, 32, 98, 121, 116, 101, 115, 32, 40, 104, 101, 120, 41,
          58, 32>>

(***************************************************************************)
(* The producer's side of the payload, used to build inputs: UTF-8         *)
(* encoding, zlib compression (level 0: one stored block; otherwise one    *)
(* fixed-Huffman block of literals, which is what zlib emits for a short   *)
(* text without repeats) and standard base64 encoding.                     *)
(***************************************************************************)
utf8_char(c) ==
    IF c < 128 THEN <<c>>
    ELSE IF c < 2048 THEN <<192 + c \div 64, 128 + (c % 64)>>
    ELSE IF c < 65536
    THEN <<224 + c \div 4096, 128 + ((c \div 64) % 64), 128 + (c % 64)>>
    ELSE <<240 + c \div 262144, 128 + ((c \div 4096) % 64),
           128 + ((c \div 64) % 64), 128 + (c % 64)>>

RECURSIVE utf8_encode(_)
utf8_encode(t) ==
    IF t = <<>> THEN <<>> ELSE utf8_char(Head(t)) \o utf8_encode(Tail(t))

\* the k bits of v, most significant first
RECURSIVE CodeBits(_, _)
CodeBits(v, k) ==
    IF k = 0 THEN <<>> ELSE <<(v \div Pow2(k - 1)) % 2>> \o CodeBits(v, k - 1)

LiteralCode(c) == IF c <= 143 THEN CodeBits(48 + c, 8) ELSE CodeBits(400 + c - 144, 9)

RECURSIVE LiteralBits(_)
LiteralBits(b) ==
    IF b = <<>> THEN <<>> ELSE LiteralCode(Head(b)) \o LiteralBits(Tail(b))

\* bits to bytes, first bit least significant, the last byte zero-padded
RECURSIVE PackBits(_)
PackBits(bits) ==
    IF bits = <<>> THEN <<>>
    ELSE LET n == IF Len(bits) < 8 THEN Len(bits) ELSE 8
             byte == LET RECURSIVE Sum(_)
                         Sum(k) == IF k > n THEN 0
                                   ELSE bits[k] * Pow2(k - 1) + Sum(k + 1)
                     IN Sum(1)
         IN <<byte>> \o PackBits(SubSeq(bits, n + 1, Len(bits)))

zlib_compress(b, level) ==
    IF level = 0
    THEN <<120, 1, 1, Len(b) % 256, Len(b) \div 256,
           255 - (Len(b) % 256), 255 - Len(b) \div 256>> \o b \o adler32(b)
    ELSE <<120, 156>>
         \o PackBits(<<1, 1, 0>> \o LiteralBits(b) \o CodeBits(0, 7))
         \o adler32(b)

B64Char(v) ==
    IF v < 26 THEN 65 + v
    ELSE IF v < 52 THEN 97 + v - 26
    ELSE IF v < 62 THEN 48 + v - 52
    ELSE IF v = 62 THEN 43 ELSE 47

RECURSIVE b64encode(_)
b64encode(b) ==
    IF b = <<>> THEN <<>>
    ELSE IF Len(b) = 1
    THEN <<B64Char(b[1] \div 4), B64Char((b[1] % 4) * 16), EQUALS, EQUALS>>
    ELSE IF Len(b) = 2
    THEN <<B64Char(b[1] \div 4), B64Char((b[1] % 4) * 16 + b[2] \div 16),
           B64Char((b[2] % 16) * 4), EQUALS>>
    ELSE <<B64Char(b[1] \div 4), B64Char((b[1] % 4) * 16 + b[2] \div 16),
           B64Char((b[2] % 16) * 4 + b[3] \div 64), B64Char(b[3] % 64)>>
         \o b64encode(SubSeq(b, 4, Len(b)))

(***************************************************************************)
(* Exceptions.  binascii.Error and UnicodeDecodeError are ValueErrors;     *)
(* every exception the modelled calls raise is an Exception.               *)
(***************************************************************************)
IsInstance(e, cls) ==
    \/ cls = "Exception"
    \/ e = cls
    \/ cls = "ValueError" /\ e \in {"binascii.Error", "UnicodeDecodeError"}

\* variant of OuterHandler: the outer try without its except Exception clause
OuterHandlerB64Only(e) ==
    IF IsInstance(e, "binascii.Error") THEN "L58" ELSE "uncaught"

\* app.py:57-62: the except clauses of the outer try, in order; the result is
\* the message printed, or "uncaught" when no clause takes the exception
OuterHandler(e) ==
    IF IsInstance(e, "binascii.Error") THEN "L58"
    ELSE IF IsInstance(e, "Exception") THEN "L61"
    ELSE "uncaught"

\* variant of InnerHandler: a clause for another exception class
InnerHandlerOther(e) == IsInstance(e, "binascii.Error")

\* app.py:42: the except clause of the inner try
InnerHandler(e) == IsInstance(e, "zlib.error")

(***************************************************************************)
(* The state machine.  pc is the place of the run: "shell" (app.py:120),   *)
(* "search" (16), "b64" (28), "zlib" (33), "text_z" (35), "text_raw" (44), *)
(* "returned" (122, decode_viewstate has returned decoded_content), "pin"  *)
(* (125), "done" (a result is rendered), "fault" (an exception left        *)
(* decode_viewstate).  log holds the print statements executed, by line;   *)
(* ui is the Streamlit element rendered.  origin records how the input was *)
(* built and is read by no action.                                         *)
(***************************************************************************)
Printed(l) == \E k \in 1..Len(log) : log[k] = l

\* return value from decode_viewstate after printing l
Return(l, value) ==
    /\ log' = Append(log, l)
    /\ decoded_content' = value
    /\ pc' = "returned"

\* an exception e raised inside the outer try (app.py:26-62)
RaiseOuter(e) ==
    IF OuterHandler(e) = "uncaught"
    THEN pc' = "fault" /\ UNCHANGED <<log, decoded_content>>
    ELSE Return(OuterHandler(e), None)

\* app.py:120-122, 139-141
ShellStart ==
    /\ pc = "shell"
    /\ IF Truthy(Str(source_content))
       THEN pc' = "search" /\ ui' = ui
       ELSE pc' = "done" /\ ui' = "info"
    /\ UNCHANGED <<source_content, encoded_string, decoded_bytes,
                   decompressed_bytes, decoded_content, pin_value, log, origin>>

\* app.py:16-24
Search ==
    /\ pc = "search"
    /\ LET match == ViewstateSearch(source_content)
       IN IF match = None
          THEN Return("L19", None) /\ encoded_string' = encoded_string
          ELSE /\ encoded_string' = match
               /\ pc' = "b64"
               /\ UNCHANGED <<log, decoded_content>>
    /\ UNCHANGED <<source_content, decoded_bytes, decompressed_bytes,
                   pin_value, ui, origin>>

\* app.py:26-29, 57-62
B64Decode ==
    /\ pc = "b64"
    /\ LET r == b64decode(encoded_string.val)
       IN IF r.st = "ok"
          THEN /\ decoded_bytes' = Bytes(r.val)
               /\ log' = Append(log, "L29")
               /\ pc' = "zlib"
               /\ decoded_content' = decoded_content
          ELSE RaiseOuter(r.st) /\ decoded_bytes' = decoded_bytes
    /\ UNCHANGED <<source_content, encoded_string, decompressed_bytes,
                   pin_value, ui, origin>>

\* app.py:32-34, 42-43
Decompress ==
    /\ pc = "zlib"
    /\ LET r == zlib_decompress(decoded_bytes.val)
       IN IF r.st = "ok"
          THEN /\ decompressed_bytes' = Bytes(r.val)
               /\ log' = Append(log, "L34")
               /\ pc' = "text_z"
               /\ decoded_content' = decoded_content
          ELSE IF r.st = "dynamic"
          THEN /\ pc' = "unmodelled"
               /\ UNCHANGED <<decompressed_bytes, log, decoded_content>>
          ELSE IF InnerHandler(r.st)
          THEN /\ log' = Append(log, "L43")
               /\ pc' = "text_raw"
               /\ UNCHANGED <<decompressed_bytes, decoded_content>>
          ELSE RaiseOuter(r.st) /\ decompressed_bytes' = decompressed_bytes
    /\ UNCHANGED <<source_content, encoded_string, decoded_bytes, pin_value,
                   ui, origin>>

\* app.py:35-41: a failure of the Latin-1 decoding at line 39 is taken by no
\* clause of the inner try and reaches the outer ones
DecodeDecompressed ==
    /\ pc = "text_z"
    /\ LET u == utf8_decode(decompressed_bytes.val)
           l == latin1_decode(decompressed_bytes.val)
       IN IF u.st = "ok" THEN Return("L37", Str(u.val))
          ELSE IF l.st = "ok" THEN Return("L40", Str(l.val))
          ELSE RaiseOuter(l.st)
    /\ UNCHANGED <<source_content, encoded_string, decoded_bytes,
                   decompressed_bytes, pin_value, ui, origin>>

\* app.py:44-55
DecodeRaw ==
    /\ pc = "text_raw"
    /\ LET u == utf8_decode(decoded_bytes.val)
           l == latin1_decode(decoded_bytes.val)
       IN IF u.st = "ok" THEN Return("L46", Str(u.val))
          ELSE IF l.st = "ok" THEN Return("L51", Str(l.val))
          ELSE Return("L53", Str(HEX_MESSAGE \o hex(decoded_bytes.val)))
    /\ UNCHANGED <<source_content, encoded_string, decoded_bytes,
                   decompressed_bytes, pin_value, ui, origin>>

\* app.py:124, 136-138
ShellCheck ==
    /\ pc = "returned"
    /\ IF Truthy(decoded_content)
       THEN pc' = "pin" /\ ui' = ui
       ELSE pc' = "done" /\ ui' = "error"
    /\ UNCHANGED <<source_content, encoded_string, decoded_bytes,
                   decompressed_bytes, decoded_content, pin_value, log, origin>>

\* app.py:125-135
ShellPin ==
    /\ pc = "pin"
    /\ pin_value' = extract_pin_value(decoded_content)
    /\ ui' = IF Truthy(pin_value') THEN "success" ELSE "warning"
    /\ pc' = "done"
    /\ UNCHANGED <<source_content, encoded_string, decoded_bytes,
                   decompressed_bytes, decoded_content, log, origin>>

Next ==
    \/ ShellStart
    \/ Search
    \/ B64Decode
    \/ Decompress
    \/ DecodeDecompressed
    \/ DecodeRaw
    \/ ShellCheck
    \/ ShellPin

(***************************************************************************)
(* Inputs.  source_content is what the shell hands to decode_viewstate;    *)
(* the families below build it the way a page carrying a view-state does.  *)
(* In the comments q stands for the double quote.                          *)
(***************************************************************************)
MaxTextLen == 2
MaxRawLen == 2
MaxValueLen == 5
MaxParts == 3

SeqsUpTo(S, n) == UNION {[1..k -> S] : k \in 0..n}

\* <input
TAG_OPEN ==
    <<60, 105, 110, 112, 117, 116>>
\*  />
TAG_CLOSE ==
    <<32, 47, 62>>
\*  type=qhiddenq
ATTR_TYPE ==
    <<32, 116, 121, 112, 101, 61, 34, 104, 105, 100, 100, 101, 110,
      34>>
\*  id=q__VIEWSTATEq
ATTR_ID ==
    <<32, 105, 100, 61, 34, 95, 95, 86, 73, 69, 87, 83, 84, 65, 84,
      69, 34>>
\*  data-value=qxq
ATTR_DATA ==
    <<32, 100, 97, 116, 97, 45, 118, 97, 108, 117, 101, 61, 34, 120,
      34>>
\* PIN: 123456
TEXT_PIN ==
    <<80, 73, 78, 58, 32, 49, 50, 51, 52, 53, 54>>
\* no pin here
TEXT_NO_PIN ==
    <<110, 111, 32, 112, 105, 110, 32, 104, 101, 114, 101>>
\* PIN1234567
TEXT_LONG_RUN ==
    <<80, 73, 78, 49, 50, 51, 52, 53, 54, 55>>
\* aaaaaaaa
TEXT_REPEAT ==
    <<97, 97, 97, 97, 97, 97, 97, 97>>
\* zlib.compress of TEXT_REPEAT at the default level: a literal and a match
ZLIB_REPEAT ==
    <<120, 156, 75, 76, 132, 0, 0, 13, 172, 3, 9>>
\* QUJD, the base64 of ABC
VALUE_ABC ==
    <<81, 85, 74, 68>>
\* <input name=qxq value=qQUJDq />
HTML_OTHER_NAME ==
    <<60, 105, 110, 112, 117, 116, 32, 110, 97, 109, 101, 61, 34, 120,
      34, 32, 118, 97, 108, 117, 101, 61, 34, 81, 85, 74, 68, 34, 32,
      47, 62>>
\* <input value=qQUJDq name=q__VIEWSTATEq />
HTML_VALUE_FIRST ==
    <<60, 105, 110, 112, 117, 116, 32, 118, 97, 108, 117, 101, 61, 34,
      81, 85, 74, 68, 34, 32, 110, 97, 109, 101, 61, 34, 95, 95, 86,
      73, 69, 87, 83, 84, 65, 84, 69, 34, 32, 47, 62>>
\* no pin here
HTML_PLAIN ==
    <<110, 111, 32, 112, 105, 110, 32, 104, 101, 114, 101>>

\* name=q__VIEWSTATEq value=q...q
MinimalAttr(value) ==
    NAME_LITERAL \o <<32>> \o VALUE_LITERAL \o value \o <<QUOTE>>

\* an input tag with other attributes before name, between name and value,
\* and after value
Tag(pre, mid, post, value) ==
    TAG_OPEN \o pre \o <<32>> \o NAME_LITERAL \o mid \o <<32>>
    \o VALUE_LITERAL \o value \o <<QUOTE>> \o post \o TAG_CLOSE

\* what the page's producer did with the plain bytes before encoding them
Wraps == {"none", "stored", "fixed", "truncated", "badsum", "trailing"}
Wrap(plain, w) ==
    LET z == zlib_compress(plain, 6)
    IN IF w = "none" THEN plain
       ELSE IF w = "stored" THEN zlib_compress(plain, 0)
       ELSE IF w = "fixed" THEN z
       ELSE IF w = "truncated" THEN SubSeq(z, 1, Len(z) - 1)
       ELSE IF w = "badsum"
       THEN SubSeq(z, 1, Len(z) - 1) \o <<(z[Len(z)] + 1) % 256>>
       ELSE z \o <<0, 255>>

Origin(family, wrap, text, plain, payload, value) ==
    [family |-> family, wrap |-> wrap, text |-> text, bytes |-> plain,
     payload |-> payload, value |-> value]

Input(html, o) == [html |-> html, origin |-> o]

PayloadInput(family, text, plain, w) ==
    LET payload == Wrap(plain, w)
        value == b64encode(payload)
    IN Input(MinimalAttr(value),
             Origin(family, w, text, plain, payload, value))

\* a, e acute, the euro sign, an emoji, a line feed
TextChars == {97, 233, 8364, 128512, 10}
Texts == SeqsUpTo(TextChars, MaxTextLen)
          \cup {TEXT_PIN, TEXT_NO_PIN, TEXT_LONG_RUN}
TextInputs ==
    {PayloadInput("text", t, utf8_encode(t), w) : t \in Texts, w \in Wraps}

\* A, a continuation byte, a lead byte, a byte no UTF-8 text holds
RawByteValues == {65, 128, 233, 255}
RawBytes == SeqsUpTo(RawByteValues, MaxRawLen)
BytesInputs ==
    {PayloadInput("bytes", <<>>, b, w) : b \in RawBytes, w \in Wraps}

SampleInputs ==
    {Input(MinimalAttr(b64encode(ZLIB_REPEAT)),
           Origin("text", "real", TEXT_REPEAT, utf8_encode(TEXT_REPEAT),
                  ZLIB_REPEAT, b64encode(ZLIB_REPEAT)))}

OtherAttrs == {<<>>, ATTR_TYPE, ATTR_ID, ATTR_DATA}
TagValues == {VALUE_ABC, b64encode(zlib_compress(utf8_encode(TEXT_PIN), 6))}
TagInputs ==
    {Input(Tag(pre, mid, post, v), Origin("tag", "tag", <<>>, <<>>, <<>>, v)) :
        pre \in OtherAttrs, mid \in OtherAttrs, post \in OtherAttrs,
        v \in TagValues}

\* Q, =, !, e acute
ValueChars == {81, 61, 33, 233}
ValueInputs ==
    {Input(MinimalAttr(v), Origin("value", "value", <<>>, <<>>, <<>>, v)) :
        v \in SeqsUpTo(ValueChars, MaxValueLen)}

MiscInputs ==
    {Input(h, Origin("misc", "misc", <<>>, <<>>, <<>>, <<>>)) :
        h \in {<<>>, HTML_OTHER_NAME, HTML_VALUE_FIRST, HTML_PLAIN}}

Inputs ==
    TextInputs \cup BytesInputs \cup SampleInputs \cup TagInputs
    \cup ValueInputs \cup MiscInputs

\* the parts of the texts searched for a PIN: the label (upper case, lower
\* case, with a dotless i), gap characters, and digit runs of 5, 6 and 7
\* ASCII digits and of 6 Arabic-Indic digits
PinParts ==
    {<<80, 73, 78>>, <<112, 105, 110>>, <<112, 305, 110>>,
     <<LF>>, <<32>>, <<120>>,
     <<49, 50, 51, 52, 53>>, <<49, 50, 51, 52, 53, 54>>,
     <<49, 50, 51, 52, 53, 54, 55>>,
     <<1633, 1634, 1635, 1636, 1637, 1638>>}
PinTexts == {Flatten(ps) : ps \in SeqsUpTo(PinParts, MaxParts)}
PinInputs ==
    {PayloadInput("pintext", t, utf8_encode(t), w) :
        t \in PinTexts, w \in {"none", "fixed"}}

Start(in) ==
    /\ source_content = in.html
    /\ origin = in.origin
    /\ pc = "shell"
    /\ encoded_string = None
    /\ decoded_bytes = None
    /\ decompressed_bytes = None
    /\ decoded_content = None
    /\ pin_value = None
    /\ log = <<>>
    /\ ui = ""

Init == \E in \in Inputs : Start(in)
InitPin == \E in \in PinInputs : Start(in)

Spec == Init /\ [][Next]_vars
SpecPin == InitPin /\ [][Next]_vars

(***************************************************************************)
(* Properties.                                                             *)
(***************************************************************************)
\* decode_viewstate was called and has returned
Returned == pc \in {"returned", "pin"} \/ (pc = "done" /\ ui # "info")
\* the shell has rendered the result of a call of decode_viewstate
Done == pc = "done" /\ ui # "info"
\* extract_pin_value was called and has returned
PinSearched == pc = "done" /\ ui \in {"success", "warning"}

\* no modelled payload holds a deflate block with dynamic Huffman codes
DynamicFree == pc # "unmodelled"

\* C1: a text that is UTF-8 encoded, zlib-compressed, base64-encoded and
\* embedded as the value of a minimal name/value attribute string comes back
\* from decode_viewstate exactly.
C1_RoundTrip ==
    (/\ Returned
     /\ origin.family = "text"
     /\ origin.wrap \in {"stored", "fixed", "real"})
    => decoded_content = Str(origin.text)

\* a two-character text of the euro sign and an emoji came back
C1_Witness ==
    /\ pc = "returned"
    /\ origin.family = "text"
    /\ origin.wrap = "fixed"
    /\ origin.text = <<8364, 128512>>
    /\ decoded_content = Str(origin.text)

\* C2: when every digit run after the label PIN has 7 or more digits,
\* extract_pin_value returns None.
LabelStarts(t) == {i \in 1..Len(t) : LiteralAt(PIN_LITERAL, t, i)}
\* the maximal digit runs <<a, b>> of t that start at or after position e
DigitRunsFrom(t, e) ==
    {r \in (e..Len(t)) \X (e..Len(t)) :
        /\ r[1] <= r[2]
        /\ \A k \in r[1]..r[2] : IsDigit(t[k])
        /\ (r[1] = 1 \/ ~IsDigit(t[r[1] - 1]))
        /\ (r[2] = Len(t) \/ ~IsDigit(t[r[2] + 1]))}
OnlyLongRuns(t) ==
    /\ LabelStarts(t) # {}
    /\ \A r \in DigitRunsFrom(t, Min(LabelStarts(t)) + Len(PIN_LITERAL)) :
          r[2] - r[1] + 1 > PIN_DIGITS
C2_LongRunsAbsent ==
    (PinSearched /\ OnlyLongRuns(decoded_content.val)) => pin_value = None

\* C3: for a tag that carries name=q__VIEWSTATEq and a value attribute, the
\* captured string is the content of that value attribute, whatever other
\* attributes stand before name, between name and value, or after value.
C3_CapturesValue ==
    (origin.family = "tag" /\ pc \notin {"shell", "search"})
    => encoded_string = Str(origin.value)

\* C4 as claimed: every failure kind has an outcome of its own.  NotFound is
\* returned as None and shown as the error message, so no other kind, and no
\* successful decoding, may end in None or in the error message.
Kind ==
    IF Printed("L19") THEN "NotFound"
    ELSE IF Printed("L58") \/ Printed("L61") THEN "InvalidEncoding"
    ELSE IF Printed("L53") THEN "UndecodableBinary"
    ELSE IF pin_value = None THEN "PinNotFound"
    ELSE "Found"
C4_DistinctOutcomes ==
    Done => ((decoded_content = None \/ ui = "error") <=> Kind = "NotFound")

\* C4 as amended: NotFound and InvalidEncoding are both returned as None and
\* both shown as the same error message, which is also shown when the
\* decoded text is empty; PinNotFound on a non-empty text is shown as a
\* warning and a found PIN as a success, and UndecodableBinary never occurs.
C4_Outcomes ==
    Done =>
        /\ decoded_content = None <=> Kind \in {"NotFound", "InvalidEncoding"}
        /\ ui = "error" <=> (\/ Kind \in {"NotFound", "InvalidEncoding"}
                             \/ decoded_content = Str(<<>>))
        /\ ui = "warning" <=> (Kind = "PinNotFound" /\ Truthy(decoded_content))
        /\ ui = "success" <=> Kind = "Found"
        /\ Kind # "UndecodableBinary"

\* an InvalidEncoding run ended in None and the error message
C4_Witness ==
    /\ Done
    /\ Kind = "InvalidEncoding"
    /\ decoded_content = None
    /\ ui = "error"

\* C5 as claimed: a captured value that is not valid base64 (a character
\* outside the alphabet, or a wrong length or padding) makes
\* decode_viewstate fail with None.
IsB64Char(c) ==
    \/ c >= 65 /\ c <= 90
    \/ c >= 97 /\ c <= 122
    \/ c >= 48 /\ c <= 57
    \/ c = 43
    \/ c = 47
NotValidBase64(v) ==
    \/ \E k \in 1..Len(v) : ~IsB64Char(v[k]) /\ v[k] # EQUALS
    \/ Len(v) % 4 # 0
    \/ \E k \in 1..Len(v) : v[k] = EQUALS /\ k < Len(v) - 1
    \/ Len(v) >= 2 /\ v[Len(v) - 1] = EQUALS /\ v[Len(v)] # EQUALS
Failed == decoded_content = None /\ (Printed("L58") \/ Printed("L61"))
C5_InvalidRejected ==
    (Returned /\ encoded_string # None /\ NotValidBase64(encoded_string.val))
    => Failed

\* C5 as amended: decode_viewstate fails with None exactly when the value
\* holds a non-ASCII character, or when its alphabet characters leave a quad
\* open: no = completes the padding of a quad (one = after 3 characters of
\* it, or a second = after 2) and their number is no multiple of 4.  ASCII
\* characters outside the alphabet are skipped and cause no failure.
DataBefore(v, k) == Cardinality({j \in 1..(k - 1) : IsB64Char(v[j])})
CompletesPadding(v, k) ==
    /\ v[k] = EQUALS
    /\ \/ DataBefore(v, k) % 4 = 3
       \/ /\ DataBefore(v, k) % 4 = 2
          /\ \E j \in 1..(k - 1) :
                v[j] = EQUALS /\ DataBefore(v, j) = DataBefore(v, k)
Rejected(v) ==
    \/ \E k \in 1..Len(v) : v[k] > 127
    \/ /\ \A k \in 1..Len(v) : ~CompletesPadding(v, k)
       /\ DataBefore(v, Len(v) + 1) % 4 # 0
C5_Rejected ==
    (Returned /\ encoded_string # None)
    => /\ Failed <=> Rejected(encoded_string.val)
       /\ Printed("L61") <=> \E k \in 1..Len(encoded_string.val) :
                                encoded_string.val[k] > 127

\* the value QQ!== was decoded to the byte A, the ! skipped
C5_Witness ==
    /\ pc = "returned"
    /\ encoded_string = Str(<<81, 81, 33, 61, 61>>)
    /\ decoded_bytes = Bytes(<<65>>)
    /\ decoded_content = Str(<<65>>)

\* C6: extract_pin_value returns the first qualifying run (6 digits not
\* preceded by a digit) at or after the end of the earliest label from which
\* one can be reached, whatever the characters between label and run, and
\* None only when no label is followed by a qualifying run.
QualifyingFrom(t, i) ==
    {s \in (i + Len(PIN_LITERAL))..Len(t) :
        NotAfterDigit(t, s) /\ DigitsAt(t, s)}
FirstQualifyingRun(t) ==
    IF \A i \in LabelStarts(t) : QualifyingFrom(t, i) = {} THEN None
    ELSE LET i == Min({k \in LabelStarts(t) : QualifyingFrom(t, k) # {}})
             s == Min(QualifyingFrom(t, i))
         IN Str(Slice(t, s, s + PIN_DIGITS - 1))
C6_FirstQualifyingRun ==
    PinSearched => pin_value = FirstQualifyingRun(decoded_content.val)

\* C7: the result of extract_pin_value is None or six ASCII digits.
C7_SixAsciiDigits ==
    PinSearched =>
        \/ pin_value = None
        \/ /\ Len(pin_value.val) = PIN_DIGITS
           /\ \A k \in 1..Len(pin_value.val) :
                 pin_value.val[k] >= 48 /\ pin_value.val[k] <= 57

\* C8: once base64 decoding succeeded decode_viewstate does not fail.  When
\* the decoded bytes are no zlib stream the result is the text decoding
\* (UTF-8 if well-formed, else Latin-1) of those bytes unchanged; when they
\* are one, the same decoding of the decompressed bytes.
TextDecoding(b) == IF utf8_decode(b).st = "ok" THEN utf8_decode(b).val ELSE b
C8_Fallback ==
    (Returned /\ decoded_bytes # None) =>
        /\ decoded_content.tag = "str"
        /\ decoded_content.val =
              TextDecoding(IF decompressed_bytes = None
                           THEN decoded_bytes.val
                           ELSE decompressed_bytes.val)
        /\ origin.family \in {"text", "bytes", "pintext"} =>
              /\ decoded_bytes.val = origin.payload
              /\ IF origin.wrap \in {"none", "truncated", "badsum"}
                 THEN /\ decompressed_bytes = None
                      /\ decoded_content.val = TextDecoding(origin.payload)
                 ELSE /\ decompressed_bytes = Bytes(origin.bytes)
                      /\ decoded_content.val = TextDecoding(origin.bytes)

\* a stream with a wrong checksum was decoded as Latin-1 text
C8_Witness ==
    /\ pc = "returned"
    /\ origin.wrap = "badsum"
    /\ Printed("L43")
    /\ Printed("L51")
    /\ decoded_content = Str(origin.payload)

\* C9: every call of decode_viewstate returns, with exactly one outcome (None
\* after one failure message, or a text after one decoding message), and no
\* exception leaves it: every step moves the run forward along the finitely
\* many places of the call and the run never ends in a fault.
Outcomes == {"L19", "L58", "L61", "L37", "L40", "L46", "L51", "L53"}
OneOutcome ==
    /\ Cardinality({l \in Outcomes : Printed(l)}) = 1
    /\ decoded_content = None
          <=> (Printed("L19") \/ Printed("L58") \/ Printed("L61"))
    /\ decoded_content.tag \in {"None", "str"}
Rank(p) ==
    IF p = "shell" THEN 0
    ELSE IF p = "search" THEN 1
    ELSE IF p = "b64" THEN 2
    ELSE IF p = "zlib" THEN 3
    ELSE IF p \in {"text_z", "text_raw"} THEN 4
    ELSE IF p = "returned" THEN 5
    ELSE IF p = "pin" THEN 6
    ELSE 7
C9_Completes ==
    /\ [](pc # "fault" /\ DynamicFree)
    /\ [](Returned => OneOutcome)
    /\ [][Rank(pc') > Rank(pc)]_vars

\* the empty value was decoded to the empty text
C9_Witness ==
    /\ pc = "returned"
    /\ encoded_string = Str(<<>>)
    /\ decoded_bytes = Bytes(<<>>)
    /\ decoded_content = Str(<<>>)

\* C10: the hexadecimal diagnostic is never returned: text decoding always
\* ends with a UTF-8 or a Latin-1 success.
StartsWith(t, prefix) ==
    Len(t) >= Len(prefix) /\ SubSeq(t, 1, Len(prefix)) = prefix
C10_NoHexDiagnostic ==
    /\ ~Printed("L53")
    /\ (Returned /\ decoded_bytes # None) =>
          /\ Printed("L37") \/ Printed("L40") \/ Printed("L46") \/ Printed("L51")
          /\ ~StartsWith(decoded_content.val, HEX_MESSAGE)

\* bytes that are no UTF-8 were decoded as Latin-1
C10_Witness ==
    /\ pc = "returned"
    /\ Printed("L51")
    /\ decoded_bytes = Bytes(<<255, 128>>)
    /\ decoded_content = Str(<<255, 128>>)

====
